---- MODULE Spec2Model ----
(***************************************************************************)
(* open-mr.py: open a GitLab merge request from the current branch and     *)
(* link it to the Jira ticket named by the branch.                         *)
(*                                                                         *)
(* Strings are sequences of one-character strings, so that the regular     *)
(* expressions of the script are computed on the text itself.  Each run    *)
(* of the script is a process; a step of a run is one call of main() up to *)
(* and including its next network exchange.  The two remote services are   *)
(* the shared state: the merge requests of the hosting service and the     *)
(* remote links of the ticket.                                             *)
(***************************************************************************)
EXTENDS Integers, Sequences, FiniteSets

\* Number of runs of the script that are started.
NRuns == 2

Runs == 1..NRuns

-----------------------------------------------------------------------------
\* Text

Lower == {"a","b","c","d","e","f","g","h","i","j","k","l","m","n","o","p","q","r","s","t","u","v","w","x","y","z"}
Upper == {"A","B","C","D","E","F","G","H","I","J","K","L","M","N","O","P","Q","R","S","T","U","V","W","X","Y","Z"}
Digits == {"0","1","2","3","4","5","6","7","8","9"}
DigitChar == <<"1","2","3","4","5","6","7","8","9">>

\* Python's None, as a value of the type of the strings.
None == <<"None">>

\* CONFIGURABLE
JIRA_HOST == <<"j","i","r","a",".","a","t","l","a","s","s","i","a","n",".","c","o","m">>
GITLAB_HOST == <<"g","i","t","l","a","b",".","c","o","m">>
TARGET_BRANCH == <<"d","e","v","e","l","o","p">>
\* TASK_NAME_REGEX = 'TCRM-[0-9]*': the literal prefix, then the class [0-9]*.
TASK_NAME_PREFIX == <<"T","C","R","M","-">>
SQUASH == TRUE
REMOVE_SOURCE_BRANCH == TRUE

\* expected_status of send_https_request: the default, and that of the two POSTs.
HTTP_OK == 200
HTTP_CREATED == 201

Scheme == <<"h","t","t","p","s",":","/","/">>
DotGit == <<".","g","i","t">>
MrPath == <<"/","-","/","m","e","r","g","e","_","r","e","q","u","e","s","t","s">>
BrowsePath == <<"/","b","r","o","w","s","e","/">>

\* s has p at position i.
StartsWithAt(s, i, p) ==
    /\ i >= 1
    /\ i + Len(p) - 1 <= Len(s)
    /\ SubSeq(s, i, i + Len(p) - 1) = p

\* The first position from i on whose character is not in Class (a greedy Class*).
RECURSIVE RunEnd(_, _, _)
RunEnd(s, i, Class) ==
    IF i <= Len(s) /\ s[i] \in Class THEN RunEnd(s, i + 1, Class) ELSE i

SetMin(S) == CHOOSE x \in S : \A y \in S : x <= y

NoMatch == [ok |-> FALSE, group |-> <<>>]

\* re.search('/(Class*)Suffix', s): the leftmost '/' that is followed by a run of
\* Class and then Suffix. Suffix starts with a character outside Class in both
\* uses, so only the longest run can be followed by it. group: group(1).
ReSearch(s, Class, Suffix) ==
    LET hits == {i \in 1..Len(s) :
                    s[i] = "/" /\ StartsWithAt(s, RunEnd(s, i + 1, Class), Suffix)}
    IN  IF hits = {} THEN NoMatch
        ELSE LET i == SetMin(hits)
             IN  [ok |-> TRUE, group |-> SubSeq(s, i + 1, RunEnd(s, i + 1, Class) - 1)]

\* re.search(TASK_NAME_REGEX, branch): the pattern anywhere in the branch name.
ReSearchTaskName(branch) ==
    LET hits == {i \in 1..Len(branch) : StartsWithAt(branch, i, TASK_NAME_PREFIX)}
    IN  IF hits = {} THEN NoMatch
        ELSE LET i == SetMin(hits)
             IN  [ok |-> TRUE,
                  group |-> SubSeq(branch, i,
                                   RunEnd(branch, i + Len(TASK_NAME_PREFIX), Digits) - 1)]

\* re.match(TASK_NAME_REGEX, current_branch): the pattern at the start of the
\* branch name. group: match.group(), the prefix and the digits that follow it.
ReMatchTaskName(branch) ==
    IF StartsWithAt(branch, 1, TASK_NAME_PREFIX)
    THEN [ok |-> TRUE,
          group |-> SubSeq(branch, 1,
                           RunEnd(branch, Len(TASK_NAME_PREFIX) + 1, Digits) - 1)]
    ELSE NoMatch

\* re.search('/([a-zA-Z0-9\-]*)\.git', remote_url) of get_project_id.
ProjectNameFrom(url) == ReSearch(url, Lower \cup Upper \cup Digits \cup {"-"}, DotGit)

\* re.search('\/([a-zA-Z\-]*)\/-\/merge_requests', mr_link); .group(1) of a failed
\* search raises AttributeError (ok = FALSE).
get_service_name_from(mr_link) ==
    ReSearch(mr_link, Lower \cup Upper \cup {"-"}, MrPath)

Contains(s, p) == \E i \in 1..(Len(s) + 1) : StartsWithAt(s, i, p)

-----------------------------------------------------------------------------
\* The local repository and the two services

BrFix == <<"T","C","R","M","-","4","2","-","f","i","x">>
BrNoDigits == <<"T","C","R","M","-","x">>
BrInfix == <<"f","i","x","-","T","C","R","M","-","7">>
BrLower == <<"t","c","r","m","-","4","2">>

\* Names of the current branch: the target, two with the ticket prefix, and
\* three without it at the start (one of them empty: a detached HEAD).
Branches == {TARGET_BRANCH, BrFix, BrNoDigits, BrInfix, BrLower, <<>>}

Group == <<"g","r","p">>
NameHyphen == <<"m","y","-","s","v","c">>
NameDigit == <<"s","v","c","2">>
NameUnderscore == <<"m","y","_","s","v","c">>
NameDot == <<"m","y",".","s","v","c">>
NameOther == <<"o","t","h","e","r">>

WebUrl(name) == Scheme \o GITLAB_HOST \o <<"/">> \o Group \o <<"/">> \o name
HttpUrl(name) == WebUrl(name) \o DotGit
SshUrl(name) == <<"g","i","t","@">> \o GITLAB_HOST \o <<":">> \o Group \o <<"/">> \o name \o DotGit

Project(id, name) ==
    [id |-> id, path |-> name, web_url |-> WebUrl(name),
     ssh_url_to_repo |-> SshUrl(name), http_url_to_repo |-> HttpUrl(name),
     archived |-> FALSE, access_level |-> 30, merge_requests_enabled |-> TRUE]

\* The projects the token can see on the hosting service.
gitlab_projects ==
    << Project(12, NameHyphen), Project(13, NameDigit),
       Project(14, NameUnderscore), Project(15, NameDot) >>

\* Values of `git remote get-url origin`: projects of the service by either clone
\* URL, a repository the service does not list, and a URL without '.git'.
Remotes ==
    { SshUrl(NameHyphen), HttpUrl(NameDigit), SshUrl(NameUnderscore),
      HttpUrl(NameDot), HttpUrl(NameOther), WebUrl(NameHyphen) }

\* The summary field of the ticket.
jira_summary == <<" ","F","i","x">>

\* The id of the user the token belongs to.
gitlab_user == [id |-> 5]

\* min_access_level = '30' (Developer) and max_per_page = '100' of get_project_id.
min_access_level == 30
max_per_page == 100

\* order_by=id&sort=desc: the projects of a set, the highest id first.
RECURSIVE SortByIdDesc(_)
SortByIdDesc(ps) ==
    IF ps = {} THEN <<>>
    ELSE LET top == CHOOSE p \in ps : \A q \in ps : q.id <= p.id
         IN  <<top>> \o SortByIdDesc(ps \ {top})

\* GET /projects?archived=false&min_access_level=..&with_merge_requests_enabled=true
\* &per_page=..&sort=desc&order_by=id&search=name: the listed projects that pass
\* the filters and whose path contains name, the highest id first, one page of
\* them (the script reads no second page).
SearchProjects(name) ==
    LET found == {gitlab_projects[i] : i \in
                    {j \in 1..Len(gitlab_projects) :
                        /\ ~gitlab_projects[j].archived
                        /\ gitlab_projects[j].access_level >= min_access_level
                        /\ gitlab_projects[j].merge_requests_enabled
                        /\ Contains(gitlab_projects[j].path, name)}}
        sorted == SortByIdDesc(found)
    IN  SubSeq(sorted, 1, IF Len(sorted) < max_per_page THEN Len(sorted) ELSE max_per_page)

\* The loop of get_project_id: the id of the first project one of whose clone
\* URLs is the remote URL; 0 when there is none (the function then raises).
RECURSIVE FindProject(_, _)
FindProject(response, url) ==
    IF response = <<>> THEN 0
    ELSE IF url \in {Head(response).ssh_url_to_repo, Head(response).http_url_to_repo}
         THEN Head(response).id
         ELSE FindProject(Tail(response), url)

\* GET /projects/{id}/merge_requests?state=opened&source_branch=..&target_branch=..
OpenedMrs(mrs, project_id, source, target) ==
    SelectSeq(mrs, LAMBDA m : /\ m.project_id = project_id
                              /\ m.state = "opened"
                              /\ m.source_branch = source
                              /\ m.target_branch = target)

\* The web URL the hosting service gives merge request iid of a project.
MrUrl(project_id, iid) ==
    LET p == SelectSeq(gitlab_projects, LAMBDA q : q.id = project_id)[1]
    IN  p.web_url \o MrPath \o <<"/", DigitChar[iid]>>

-----------------------------------------------------------------------------
\* State

VARIABLES
    environ,        \* os.environ: the names of the variables that are set
    git_branch,     \* the branch checked out in the working copy
    remote_url,     \* the URL of the remote 'origin'
    gitlab_mrs,     \* the merge requests of the hosting service, oldest first
    jira_links,     \* the remote links of the tracker, oldest first
    run             \* per run of the script: its position, locals, calls and exit

vars == <<environ, git_branch, remote_url, gitlab_mrs, jira_links, run>>

\* A merge request as the hosting service lists it.
MergeRequest(project_id, iid, body, state) ==
    [project_id |-> project_id, iid |-> iid, state |-> state,
     title |-> body.title, source_branch |-> body.source_branch,
     target_branch |-> body.target_branch, assignee_id |-> body.assignee_id,
     squash |-> body.squash, remove_source_branch |-> body.remove_source_branch,
     web_url |-> MrUrl(project_id, iid)]

\* The body with the two branches exchanged.
create_mr_request_body_swapped(title, current_branch, target_branch, user_id, squash, remove_source_branch) ==
    [title |-> title, source_branch |-> target_branch, target_branch |-> current_branch,
     assignee_id |-> user_id, squash |-> squash,
     remove_source_branch |-> remove_source_branch]

\* json of create_mr_request_body.
create_mr_request_body(title, current_branch, target_branch, user_id, squash, remove_source_branch) ==
    [title |-> title, source_branch |-> current_branch, target_branch |-> target_branch,
     assignee_id |-> user_id, squash |-> squash,
     remove_source_branch |-> remove_source_branch]

\* The link body with the URL and the title exchanged.
create_jira_issue_link_request_body_swapped(mr_link, service_name) ==
    [object |-> [url |-> service_name, title |-> mr_link,
                 icon |-> [url16x16 |-> Scheme \o GITLAB_HOST
                                        \o <<"/","f","a","v","i","c","o","n",".","i","c","o">>]]]

\* json of create_jira_issue_link_request_body, given the searched service name.
create_jira_issue_link_request_body(mr_link, service_name) ==
    [object |-> [url |-> mr_link, title |-> service_name,
                 icon |-> [url16x16 |-> Scheme \o GITLAB_HOST
                                        \o <<"/","f","a","v","i","c","o","n",".","i","c","o">>]]]

\* A run before its first statement; its locals are unbound.
InitRun ==
    [pc |-> "load", exit_code |-> -1, err |-> "none", log |-> <<>>, out |-> None,
     current_branch |-> None, task |-> None, project_id |-> 0,
     mr_queried |-> FALSE, mr_response |-> <<>>, mr_link |-> None,
     title |-> None, user_id |-> 0,
     link_queried |-> FALSE, link_response |-> <<>>]

\* What the services hold when the first run starts, for a branch that names a
\* ticket in a repository the service lists: no merge request of the branch yet,
\* or request 1 of the branch, opened or already merged, linked to the ticket or not.
PreStates(branch, url) ==
    LET id == FindProject(gitlab_projects, url)
        m  == ReMatchTaskName(branch)
        body == [title |-> m.group \o jira_summary, source_branch |-> branch,
                 target_branch |-> TARGET_BRANCH, assignee_id |-> gitlab_user.id,
                 squash |-> SQUASH, remove_source_branch |-> REMOVE_SOURCE_BRANCH]
        link == [issue |-> m.group,
                 object |-> [url |-> MrUrl(id, 1),
                             title |-> SelectSeq(gitlab_projects,
                                                 LAMBDA p : p.id = id)[1].path,
                             icon |-> [url16x16 |-> Scheme \o GITLAB_HOST
                                          \o <<"/","f","a","v","i","c","o","n",".","i","c","o">>]]]
    IN  IF id = 0 \/ ~m.ok \/ branch = TARGET_BRANCH
        THEN {[mrs |-> <<>>, links |-> <<>>]}
        ELSE {[mrs |-> <<>>, links |-> <<>>]} \cup
             {[mrs |-> <<MergeRequest(id, 1, body, st)>>,
               links |-> IF l THEN <<link>> ELSE <<>>] :
                  st \in {"opened", "merged"}, l \in BOOLEAN}

Init ==
    /\ environ \in SUBSET {"JIRA_TOKEN", "GITLAB_TOKEN"}
    /\ git_branch \in Branches
    /\ remote_url \in Remotes
    /\ \E pre \in PreStates(git_branch, remote_url) :
          /\ gitlab_mrs = pre.mrs
          /\ jira_links = pre.links
    /\ run = [r \in Runs |-> InitRun]

-----------------------------------------------------------------------------
\* Steps of a run

\* The status codes a service answers with: for every call the one the script
\* expects of it and one it does not.
Statuses == {HTTP_OK, HTTP_CREATED}

\* The check of JIRA_TOKEN alone.
MissingCredentialJiraOnly(env) == "JIRA_TOKEN" \notin env

\* The two checks at module level.
MissingCredential(env) == "JIRA_TOKEN" \notin env \/ "GITLAB_TOKEN" \notin env

\* A local version-control query, and a call of send_https_request by function
\* op with the arguments arg, answered with status.
LocalCall(op) ==
    [op |-> op, host |-> <<"local">>, arg |-> <<>>, expected |-> 0, status |-> 0]
NetCall(op, host, arg, expected, status) ==
    [op |-> op, host |-> host, arg |-> arg, expected |-> expected, status |-> status]

\* A send_https_request that accepts every status.
RequestFailedNever(status, expected_status) == FALSE

\* send_https_request raises when the status is not the expected one.
RequestFailed(status, expected_status) == status # expected_status

Logged(s, call) == [s EXCEPT !.log = Append(@, call)]

\* exit(1), or an exception nothing catches: the interpreter exits with code 1.
Exit1(s, kind) == [s EXCEPT !.pc = "exited", !.exit_code = 1, !.err = kind]

\* The last statement of main: print the browse URL of the ticket; exit code 0.
Finish(s) ==
    [s EXCEPT !.pc = "exited", !.exit_code = 0,
              !.out = Scheme \o JIRA_HOST \o BrowsePath \o s.task]

Set(r, s) == run' = [run EXCEPT ![r] = s]

\* Lines 30-38: both tokens must be in the environment.
LoadModule(r) ==
    /\ run[r].pc = "load"
    /\ Set(r, IF MissingCredential(environ)
              THEN Exit1(run[r], "credential")
              ELSE [run[r] EXCEPT !.pc = "main"])
    /\ UNCHANGED <<environ, git_branch, remote_url, gitlab_mrs, jira_links>>

\* main, lines 178-192: the current branch and the two gates on its name.
GetCurrentBranch(r) ==
    /\ run[r].pc = "main"
    /\ LET s == [Logged(run[r], LocalCall("get_current_branch"))
                    EXCEPT !.current_branch = git_branch]
           match == ReMatchTaskName(git_branch)
       IN  Set(r, IF git_branch = TARGET_BRANCH THEN Exit1(s, "target_branch")
                  ELSE IF ~match.ok THEN Exit1(s, "pattern")
                  ELSE [s EXCEPT !.task = match.group, !.pc = "get_project_id"])
    /\ UNCHANGED <<environ, git_branch, remote_url, gitlab_mrs, jira_links>>

\* get_project_id: the remote URL, the project name in it, the project search and
\* the loop over its result.
GetProjectId(r, status) ==
    /\ run[r].pc = "get_project_id"
    /\ LET s0 == Logged(run[r], LocalCall("get_remote_url"))
           project_name == ProjectNameFrom(remote_url)
           s1 == Logged(s0, NetCall("get_project_id", GITLAB_HOST,
                                    <<project_name.group>>, HTTP_OK, status))
           id == FindProject(SearchProjects(project_name.group), remote_url)
       IN  Set(r, IF ~project_name.ok THEN Exit1(s0, "AttributeError")
                  ELSE IF RequestFailed(status, HTTP_OK) THEN Exit1(s1, "status")
                  ELSE IF id = 0 THEN Exit1(s1, "not_found")
                  ELSE [s1 EXCEPT !.project_id = id, !.pc = "get_already_exist_mr_link"])
    /\ UNCHANGED <<environ, git_branch, remote_url, gitlab_mrs, jira_links>>

\* The result of get_already_exist_mr_link that ignores the response.
AlreadyExistMrLinkNever(response) == None

\* The result of get_already_exist_mr_link, lines 107-110.
AlreadyExistMrLink(response) ==
    IF Len(response) > 0 THEN response[1].web_url ELSE None

\* get_already_exist_mr_link and the branch of main on its result.
GetAlreadyExistMrLink(r, status) ==
    /\ run[r].pc = "get_already_exist_mr_link"
    /\ LET s == Logged(run[r], NetCall("get_already_exist_mr_link", GITLAB_HOST,
                                       <<run[r].project_id, run[r].current_branch,
                                         TARGET_BRANCH>>, HTTP_OK, status))
           response == OpenedMrs(gitlab_mrs, run[r].project_id,
                                 run[r].current_branch, TARGET_BRANCH)
           mr_link == AlreadyExistMrLink(response)
       IN  Set(r, IF RequestFailed(status, HTTP_OK) THEN Exit1(s, "status")
                  ELSE [s EXCEPT !.mr_queried = TRUE, !.mr_response = response,
                                 !.mr_link = mr_link,
                                 !.pc = IF mr_link # None
                                        THEN "is_issue_link_already_exist"
                                        ELSE "get_task_title"])
    /\ UNCHANGED <<environ, git_branch, remote_url, gitlab_mrs, jira_links>>

\* title = task + get_task_title(task)
GetTaskTitle(r, status) ==
    /\ run[r].pc = "get_task_title"
    /\ LET s == Logged(run[r], NetCall("get_task_title", JIRA_HOST,
                                       <<run[r].task>>, HTTP_OK, status))
       IN  Set(r, IF RequestFailed(status, HTTP_OK) THEN Exit1(s, "status")
                  ELSE [s EXCEPT !.title = run[r].task \o jira_summary,
                                 !.pc = "get_user_id"])
    /\ UNCHANGED <<environ, git_branch, remote_url, gitlab_mrs, jira_links>>

\* get_user_id(), evaluated as an argument of create_mr before create_mr is called.
GetUserId(r, status) ==
    /\ run[r].pc = "get_user_id"
    /\ LET s == Logged(run[r], NetCall("get_user_id", GITLAB_HOST, <<>>, HTTP_OK, status))
       IN  Set(r, IF RequestFailed(status, HTTP_OK) THEN Exit1(s, "status")
                  ELSE [s EXCEPT !.user_id = gitlab_user.id, !.pc = "create_mr"])
    /\ UNCHANGED <<environ, git_branch, remote_url, gitlab_mrs, jira_links>>

\* A create_mr that looks for an open request again and posts only when there
\* is none, the look and the POST being one step.
CreateMrIfAbsent(r, status) ==
    /\ run[r].pc = "create_mr"
    /\ LET body == create_mr_request_body(run[r].title, run[r].current_branch,
                                          TARGET_BRANCH, run[r].user_id,
                                          SQUASH, REMOVE_SOURCE_BRANCH)
           s == Logged(run[r], NetCall("create_mr", GITLAB_HOST,
                                       <<run[r].project_id, body>>, HTTP_CREATED, status))
           created == MergeRequest(run[r].project_id, Len(gitlab_mrs) + 1, body, "opened")
           open == OpenedMrs(gitlab_mrs, run[r].project_id,
                             run[r].current_branch, TARGET_BRANCH)
       IN  IF open # <<>>
           THEN /\ gitlab_mrs' = gitlab_mrs
                /\ Set(r, [run[r] EXCEPT !.mr_link = open[1].web_url,
                                         !.pc = "is_issue_link_already_exist"])
           ELSE /\ gitlab_mrs' = IF status = HTTP_CREATED
                                 THEN Append(gitlab_mrs, created) ELSE gitlab_mrs
                /\ Set(r, IF RequestFailed(status, HTTP_CREATED) THEN Exit1(s, "status")
                          ELSE [s EXCEPT !.mr_link = created.web_url,
                                         !.pc = "is_issue_link_already_exist"])
    /\ UNCHANGED <<environ, git_branch, remote_url, jira_links>>

\* create_mr: the POST; the service that answers 201 has stored the new request.
CreateMr(r, status) ==
    /\ run[r].pc = "create_mr"
    /\ LET body == create_mr_request_body(run[r].title, run[r].current_branch,
                                          TARGET_BRANCH, run[r].user_id,
                                          SQUASH, REMOVE_SOURCE_BRANCH)
           s == Logged(run[r], NetCall("create_mr", GITLAB_HOST,
                                       <<run[r].project_id, body>>, HTTP_CREATED, status))
           created == MergeRequest(run[r].project_id, Len(gitlab_mrs) + 1, body, "opened")
       IN  /\ gitlab_mrs' = IF status = HTTP_CREATED THEN Append(gitlab_mrs, created)
                            ELSE gitlab_mrs
           /\ Set(r, IF RequestFailed(status, HTTP_CREATED) THEN Exit1(s, "status")
                     ELSE [s EXCEPT !.mr_link = created.web_url,
                                    !.pc = "is_issue_link_already_exist"])
    /\ UNCHANGED <<environ, git_branch, remote_url, jira_links>>

\* GET /issue/{task}/remotelink
RemoteLinks(links, task) == SelectSeq(links, LAMBDA l : l.issue = task)

\* The loop of is_issue_link_already_exist that never finds the link.
LinkAlreadyExistNever(response, mr_link) == FALSE

\* The loop of is_issue_link_already_exist, lines 151-154.
LinkAlreadyExist(response, mr_link) ==
    \E i \in 1..Len(response) : response[i].object.url = mr_link

\* is_issue_link_already_exist and the branch of main on its result; with the link
\* found main prints the browse URL and returns.
IsIssueLinkAlreadyExist(r, status) ==
    /\ run[r].pc = "is_issue_link_already_exist"
    /\ LET s == Logged(run[r], NetCall("is_issue_link_already_exist", JIRA_HOST,
                                       <<run[r].task, run[r].mr_link>>, HTTP_OK, status))
           response == RemoteLinks(jira_links, run[r].task)
           t == [s EXCEPT !.link_queried = TRUE, !.link_response = response]
       IN  Set(r, IF RequestFailed(status, HTTP_OK) THEN Exit1(s, "status")
                  ELSE IF LinkAlreadyExist(response, run[r].mr_link) THEN Finish(t)
                  ELSE [t EXCEPT !.pc = "add_jira_issue_link"])
    /\ UNCHANGED <<environ, git_branch, remote_url, gitlab_mrs, jira_links>>

\* add_jira_issue_link: the body is built first (the search of the service name
\* may raise), then the POST; the tracker that answers 201 has stored the link.
\* main then prints the browse URL and returns.
AddJiraIssueLink(r, status) ==
    /\ run[r].pc = "add_jira_issue_link"
    /\ LET name == get_service_name_from(run[r].mr_link)
           body == create_jira_issue_link_request_body(run[r].mr_link, name.group)
           s == Logged(run[r], NetCall("add_jira_issue_link", JIRA_HOST,
                                       <<run[r].task, body>>, HTTP_CREATED, status))
           sent == name.ok
       IN  /\ jira_links' = IF sent /\ status = HTTP_CREATED
                            THEN Append(jira_links,
                                        [issue |-> run[r].task, object |-> body.object])
                            ELSE jira_links
           /\ Set(r, IF ~name.ok THEN Exit1(run[r], "AttributeError")
                     ELSE IF RequestFailed(status, HTTP_CREATED) THEN Exit1(s, "status")
                     ELSE Finish(s))
    /\ UNCHANGED <<environ, git_branch, remote_url, gitlab_mrs>>

-----------------------------------------------------------------------------
\* Specifications

\* Runs of the script side by side, the services answering with any status.
Next ==
    \E r \in Runs :
        \/ LoadModule(r)
        \/ GetCurrentBranch(r)
        \/ \E status \in Statuses : GetProjectId(r, status)
        \/ \E status \in Statuses : GetAlreadyExistMrLink(r, status)
        \/ \E status \in Statuses : GetTaskTitle(r, status)
        \/ \E status \in Statuses : GetUserId(r, status)
        \/ \E status \in Statuses : CreateMr(r, status)
        \/ \E status \in Statuses : IsIssueLinkAlreadyExist(r, status)
        \/ \E status \in Statuses : AddJiraIssueLink(r, status)

Spec == Init /\ [][Next]_vars

\* Run r starts when the runs before it have exited.
Turn(r) == \A q \in 1..(r - 1) : run[q].pc = "exited"

\* Runs of the script one after another, every call answered with the status the
\* script expects.
SeqNext ==
    \E r \in Runs :
        \/ Turn(r) /\ LoadModule(r)
        \/ Turn(r) /\ GetCurrentBranch(r)
        \/ Turn(r) /\ GetProjectId(r, HTTP_OK)
        \/ Turn(r) /\ GetAlreadyExistMrLink(r, HTTP_OK)
        \/ Turn(r) /\ GetTaskTitle(r, HTTP_OK)
        \/ Turn(r) /\ GetUserId(r, HTTP_OK)
        \/ Turn(r) /\ CreateMr(r, HTTP_CREATED)
        \/ Turn(r) /\ IsIssueLinkAlreadyExist(r, HTTP_OK)
        \/ Turn(r) /\ AddJiraIssueLink(r, HTTP_CREATED)

SeqSpec == Init /\ [][SeqNext]_vars

-----------------------------------------------------------------------------
\* Properties

IsNetwork(call) == call.host # <<"local">>
NetworkCalls(r) == SelectSeq(run[r].log, IsNetwork)
CallsOf(r, op) == SelectSeq(run[r].log, LAMBDA c : c.op = op)
Exited(r) == run[r].pc = "exited"

\* The branch name has the ticket pattern at its start: 'TCRM-', then any digits.
HasTicketAtStart(branch) ==
    /\ Len(branch) >= 5
    /\ branch[1] = "T" /\ branch[2] = "C" /\ branch[3] = "R" /\ branch[4] = "M"
    /\ branch[5] = "-"

\* The path segment of url right before '/-/merge_requests'.
RepoSegment(url) ==
    LET k == SetMin({i \in 1..Len(url) : StartsWithAt(url, i, MrPath)})
        j == CHOOSE i \in 1..(k - 1) :
                    url[i] = "/" /\ \A h \in (i + 1)..(k - 1) : url[h] # "/"
    IN  SubSeq(url, j + 1, k - 1)

\* The status each operation is to be answered with.
ExpectedStatus(op) ==
    IF op \in {"create_mr", "add_jira_issue_link"} THEN 201 ELSE 200

\* The URL the tool prints last.
BrowseUrl(task) == Scheme \o JIRA_HOST \o BrowsePath \o task

\* C1: on the target branch, and on a branch whose name does not have the ticket
\* pattern at its start, a run makes no network call at all, and once main has
\* looked at the branch the run has exited with a non-zero code.
C1_BranchGates ==
    \A r \in Runs :
        (git_branch = TARGET_BRANCH \/ ~HasTicketAtStart(git_branch)) =>
            /\ NetworkCalls(r) = <<>>
            /\ run[r].pc \notin {"load", "main"} =>
                  Exited(r) /\ run[r].exit_code # 0

\* C1: a run on a branch that holds the ticket pattern, but not at its start,
\* has been stopped by the second gate.
C1_Witness ==
    /\ git_branch = BrInfix
    /\ \E r \in Runs : Exited(r) /\ run[r].err = "pattern" /\ Len(run[r].log) = 1

\* C2: a run whose open-request query returned at least one request never calls
\* create_mr, get_task_title or get_user_id, and checks and creates the link with
\* the web URL of the first request returned.
C2_ReuseOpenRequest ==
    \A r \in Runs :
        (run[r].mr_queried /\ Len(run[r].mr_response) > 0) =>
            /\ CallsOf(r, "create_mr") = <<>>
            /\ CallsOf(r, "get_task_title") = <<>>
            /\ CallsOf(r, "get_user_id") = <<>>
            /\ \A i \in 1..Len(run[r].log) :
                  /\ run[r].log[i].op = "is_issue_link_already_exist" =>
                        run[r].log[i].arg[2] = run[r].mr_response[1].web_url
                  /\ run[r].log[i].op = "add_jira_issue_link" =>
                        run[r].log[i].arg[2].object.url = run[r].mr_response[1].web_url

\* C2: a run found an open request, checked the link and added it.
C2_Witness ==
    \E r \in Runs :
        /\ run[r].mr_queried /\ Len(run[r].mr_response) > 0
        /\ Len(CallsOf(r, "is_issue_link_already_exist")) = 1
        /\ Len(CallsOf(r, "add_jira_issue_link")) = 1
        /\ run[r].exit_code = 0

\* C3: a run calls create_mr at most once; a call of create_mr comes after an
\* open-request query that returned nothing, after the title fetch and after the
\* user-id fetch, in that order, with source = the current branch and target =
\* the target branch; and a run whose query returned nothing and that has gone
\* on to the link steps has called it exactly once.
C3_CreateOnce ==
    \A r \in Runs :
        /\ Len(CallsOf(r, "create_mr")) <= 1
        /\ \A i \in 1..Len(run[r].log) :
              run[r].log[i].op = "create_mr" =>
                  /\ run[r].mr_queried /\ run[r].mr_response = <<>>
                  /\ \E j \in 1..(i - 1) : \E k \in (j + 1)..(i - 1) :
                        /\ run[r].log[j].op = "get_task_title"
                        /\ run[r].log[k].op = "get_user_id"
                  /\ run[r].log[i].arg[2].source_branch = git_branch
                  /\ run[r].log[i].arg[2].target_branch = TARGET_BRANCH
        /\ ( /\ run[r].mr_queried /\ run[r].mr_response = <<>>
             /\ \/ run[r].pc \in {"is_issue_link_already_exist", "add_jira_issue_link"}
                \/ CallsOf(r, "is_issue_link_already_exist") # <<>>
                \/ run[r].exit_code = 0 )
           => Len(CallsOf(r, "create_mr")) = 1

\* C3: a run found no open request, created one and ran to its end.
C3_Witness ==
    \E r \in Runs :
        /\ run[r].mr_queried /\ run[r].mr_response = <<>>
        /\ Len(CallsOf(r, "create_mr")) = 1
        /\ Len(CallsOf(r, "add_jira_issue_link")) = 1
        /\ run[r].exit_code = 0

\* C4: a run whose remote-link list holds a link with the URL of the review
\* request never calls add_jira_issue_link and has ended with the browse URL
\* printed and exit code 0.
C4_LinkPresent ==
    \A r \in Runs :
        ( /\ run[r].link_queried
          /\ \E i \in 1..Len(run[r].link_response) :
                run[r].link_response[i].object.url = run[r].mr_link )
        => /\ CallsOf(r, "add_jira_issue_link") = <<>>
           /\ Exited(r) /\ run[r].exit_code = 0
           /\ run[r].out = BrowseUrl(run[r].task)

\* C4: a run found the link of its review request on the ticket.
C4_Witness ==
    \E r \in Runs :
        /\ run[r].link_queried
        /\ \E i \in 1..Len(run[r].link_response) :
              run[r].link_response[i].object.url = run[r].mr_link
        /\ Exited(r)

\* C5: a run that found no link with the URL of its review request and has ended
\* has called add_jira_issue_link exactly once, with that URL and with the
\* repository path segment of the URL as the title.
C5_AddLinkOnce ==
    \A r \in Runs :
        ( /\ run[r].link_queried
          /\ ~\E i \in 1..Len(run[r].link_response) :
                 run[r].link_response[i].object.url = run[r].mr_link
          /\ Exited(r) )
        => /\ Len(CallsOf(r, "add_jira_issue_link")) = 1
           /\ CallsOf(r, "add_jira_issue_link")[1].arg[2].object.url = run[r].mr_link
           /\ CallsOf(r, "add_jira_issue_link")[1].arg[2].object.title
                 = RepoSegment(run[r].mr_link)

\* C6, in every state: a network call answered with another status than the one
\* expected of it is the last call of the run, and the run has exited with code
\* 1; so has a run whose repository was not found; and no call is made twice.
C6_Fatal ==
    \A r \in Runs :
        /\ \A i \in 1..Len(run[r].log) :
              (IsNetwork(run[r].log[i])
                  /\ run[r].log[i].status # ExpectedStatus(run[r].log[i].op))
              => i = Len(run[r].log) /\ Exited(r) /\ run[r].exit_code = 1
        /\ run[r].err \in {"status", "not_found"} =>
              Exited(r) /\ run[r].exit_code = 1
        /\ \A i, j \in 1..Len(run[r].log) :
              i # j => run[r].log[i].op # run[r].log[j].op

\* C6, in every step: a run that has exited does nothing more, and the hosting
\* service keeps every merge request it holds.
C6_Kept ==
    /\ \A r \in Runs : Exited(r) => run'[r] = run[r]
    /\ Len(gitlab_mrs') >= Len(gitlab_mrs)
    /\ SubSeq(gitlab_mrs', 1, Len(gitlab_mrs)) = gitlab_mrs

\* C6: every error is fatal and nothing is rolled back.
C6_FatalNoRollback == []C6_Fatal /\ [][C6_Kept]_vars

\* C6: a run created a review request and then failed at the link check; the
\* request is still on the hosting service.
C6_Witness ==
    \E r \in Runs :
        /\ Exited(r) /\ run[r].exit_code = 1 /\ run[r].err = "status"
        /\ Len(CallsOf(r, "create_mr")) = 1
        /\ run[r].log[Len(run[r].log)].op = "is_issue_link_already_exist"
        /\ \E i \in 1..Len(gitlab_mrs) : gitlab_mrs[i].web_url = run[r].mr_link

\* C7: with JIRA_TOKEN or GITLAB_TOKEN missing, a run that has started has exited
\* with code 1 without a network call and without a version-control query.
C7_Credentials ==
    \A r \in Runs :
        (~({"JIRA_TOKEN", "GITLAB_TOKEN"} \subseteq environ) /\ run[r].pc # "load") =>
            Exited(r) /\ run[r].exit_code = 1 /\ run[r].log = <<>>

\* C7: a run exited for the missing GITLAB_TOKEN, JIRA_TOKEN being set.
C7_Witness ==
    /\ environ = {"JIRA_TOKEN"}
    /\ \E r \in Runs : Exited(r) /\ run[r].err = "credential"

\* C8: in runs one after another whose calls all succeed, at most one run calls
\* create_mr, no two calls add a link with the same URL, the branch has at most
\* one open request, the ticket has no two links with one URL, and a run after
\* a run that exited with code 0 makes no creation call.
C8_Idempotent ==
    /\ \A r, q \in Runs :
          r # q => CallsOf(r, "create_mr") = <<>> \/ CallsOf(q, "create_mr") = <<>>
    /\ \A r \in Runs : Len(CallsOf(r, "create_mr")) <= 1
                       /\ Len(CallsOf(r, "add_jira_issue_link")) <= 1
    /\ \A r, q \in Runs :
          (r # q /\ CallsOf(r, "add_jira_issue_link") # <<>>
                 /\ CallsOf(q, "add_jira_issue_link") # <<>>)
          => CallsOf(r, "add_jira_issue_link")[1].arg[2].object.url
                # CallsOf(q, "add_jira_issue_link")[1].arg[2].object.url
    /\ \A i, j \in 1..Len(gitlab_mrs) :
          ( /\ i # j
            /\ gitlab_mrs[i].state = "opened" /\ gitlab_mrs[j].state = "opened"
            /\ gitlab_mrs[i].project_id = gitlab_mrs[j].project_id
            /\ gitlab_mrs[i].source_branch = gitlab_mrs[j].source_branch )
          => gitlab_mrs[i].target_branch # gitlab_mrs[j].target_branch
    /\ \A i, j \in 1..Len(jira_links) :
          (i # j /\ jira_links[i].issue = jira_links[j].issue)
          => jira_links[i].object.url # jira_links[j].object.url
    /\ \A q, r \in Runs :
          (q < r /\ run[q].exit_code = 0) =>
              /\ CallsOf(r, "create_mr") = <<>>
              /\ CallsOf(r, "add_jira_issue_link") = <<>>

\* C8: the first run created the request and the link, the second run ran to
\* its end and created nothing.
C8_Witness ==
    /\ Len(CallsOf(1, "create_mr")) = 1
    /\ Len(CallsOf(1, "add_jira_issue_link")) = 1
    /\ run[1].exit_code = 0
    /\ run[2].exit_code = 0
    /\ CallsOf(2, "create_mr") = <<>>
    /\ CallsOf(2, "add_jira_issue_link") = <<>>

\* C9, in every step: a run that leaves the create step has issued the create
\* call, and a run that leaves the add-link step with a service name has issued
\* the add-link call, whatever the services hold by then.
C9_Acts ==
    \A r \in Runs :
        /\ (run[r].pc = "create_mr" /\ run'[r].pc # "create_mr") =>
              /\ Len(run'[r].log) = Len(run[r].log) + 1
              /\ run'[r].log[Len(run'[r].log)].op = "create_mr"
        /\ ( /\ run[r].pc = "add_jira_issue_link"
             /\ run'[r].pc # "add_jira_issue_link"
             /\ run'[r].err # "AttributeError" ) =>
              /\ Len(run'[r].log) = Len(run[r].log) + 1
              /\ run'[r].log[Len(run'[r].log)].op = "add_jira_issue_link"

\* C9: the existence checks are not atomic with the creations.
C9_CheckThenAct == [][C9_Acts]_vars

\* C9: both runs saw no open request, both created one for the same branch pair.
C9_Witness ==
    /\ \A r \in {1, 2} :
          /\ run[r].mr_queried /\ run[r].mr_response = <<>>
          /\ Len(CallsOf(r, "create_mr")) = 1
          /\ CallsOf(r, "create_mr")[1].status = 201
    /\ CallsOf(1, "create_mr")[1].arg[2].source_branch
          = CallsOf(2, "create_mr")[1].arg[2].source_branch
    /\ CallsOf(1, "create_mr")[1].arg[2].target_branch
          = CallsOf(2, "create_mr")[1].arg[2].target_branch
    /\ Len(OpenedMrs(gitlab_mrs, run[1].project_id, git_branch, TARGET_BRANCH)) >= 2

\* C9: both runs saw no link with the URL of the same review request, both
\* added one; the ticket holds two links with that URL.
C9_DuplicateLinks ==
    /\ run[1].mr_link = run[2].mr_link
    /\ \A r \in {1, 2} :
          /\ run[r].link_queried
          /\ Len(CallsOf(r, "add_jira_issue_link")) = 1
          /\ CallsOf(r, "add_jira_issue_link")[1].status = 201
    /\ \E i, j \in 1..Len(jira_links) :
          i # j /\ jira_links[i].object.url = jira_links[j].object.url

\* The place of each operation in main.
StepOf(op) ==
    CASE op = "get_current_branch" -> 1
      [] op = "get_remote_url" -> 2
      [] op = "get_project_id" -> 3
      [] op = "get_already_exist_mr_link" -> 4
      [] op = "get_task_title" -> 5
      [] op = "get_user_id" -> 6
      [] op = "create_mr" -> 7
      [] op = "is_issue_link_already_exist" -> 8
      [] op = "add_jira_issue_link" -> 9

\* C10: the operations of a run happen in the order of main, each after the one
\* before it succeeded; the link is written only with the URL of a review request
\* the run has obtained; and a run that has ended with exit code 0 has printed
\* the browse URL, and the ticket has a link with the URL of the open review
\* request for (current branch, target branch) that the run found or created.
C10_Order ==
    \A r \in Runs :
        /\ \A i, j \in 1..Len(run[r].log) :
              i < j => /\ StepOf(run[r].log[i].op) < StepOf(run[r].log[j].op)
                       /\ IsNetwork(run[r].log[i]) =>
                             run[r].log[i].status = ExpectedStatus(run[r].log[i].op)
        /\ \A i \in 1..Len(run[r].log) :
              run[r].log[i].op = "add_jira_issue_link" =>
                  /\ run[r].mr_link # None
                  /\ run[r].log[i].arg[2].object.url = run[r].mr_link
                  /\ \/ Len(run[r].mr_response) > 0
                     \/ \E j \in 1..(i - 1) : /\ run[r].log[j].op = "create_mr"
                                              /\ run[r].log[j].status = 201
        /\ run[r].exit_code = 0 =>
              /\ run[r].out = BrowseUrl(run[r].task)
              /\ \E i \in 1..Len(jira_links) :
                    /\ jira_links[i].issue = run[r].task
                    /\ jira_links[i].object.url = run[r].mr_link
              /\ \E i \in 1..Len(gitlab_mrs) :
                    /\ gitlab_mrs[i].web_url = run[r].mr_link
                    /\ gitlab_mrs[i].state = "opened"
                    /\ gitlab_mrs[i].source_branch = git_branch
                    /\ gitlab_mrs[i].target_branch = TARGET_BRANCH
                    /\ \/ /\ Len(run[r].mr_response) > 0
                          /\ run[r].mr_response[1] = gitlab_mrs[i]
                       \/ /\ run[r].mr_response = <<>>
                          /\ Len(CallsOf(r, "create_mr")) = 1

\* C10: a run created the review request, added the link and ended with code 0.
C10_Witness ==
    \E r \in Runs :
        /\ run[r].exit_code = 0
        /\ Len(CallsOf(r, "create_mr")) = 1
        /\ Len(CallsOf(r, "add_jira_issue_link")) = 1
        /\ run[r].out = BrowseUrl(run[r].task)
        /\ jira_links # <<>>

====
